---- MODULE Spec2Model ----
(***************************************************************************)
(* ppt2pdf: the conversion orchestrator (converter.convert), the           *)
(* executable locator (converter.find_soffice) and the CLI entry point     *)
(* (cli.main), over an explicit model of paths, the filesystem and the     *)
(* external soffice process.                                               *)
(*                                                                         *)
(* A path (and every other string of a command line) is a sequence of      *)
(* segments: <<"/", "w", "out">> is /w/out, <<"out">> is the relative      *)
(* path out, <<"~", "x">> is ~/x and <<>> is the empty string.  An         *)
(* optional value is None (<<>>) or Some(v) (<<v>>).                       *)
(***************************************************************************)
EXTENDS Integers, Sequences, FiniteSets, TLC

\* ---------------------------------------------------------------- bounds
MaxCalls == 1     \* calls of convert and find_soffice in one behaviour

\* ------------------------------------------------------------- optionals
None == <<>>
Some(v) == <<v>>
\* Python truthiness of an optional str / list: None, "" and [] are falsy.
Truthy(o) == o # <<>> /\ o[1] # <<>>

\* ----------------------------------------------------------------- paths
Cwd == <<"/", "w">>
Home == <<"/", "h">>

IsAbs(p) == Len(p) > 0 /\ p[1] = "/"

\* Path.expanduser(): a leading ~ segment is replaced by the home directory.
expanduser(p) == IF Len(p) > 0 /\ p[1] = "~" THEN Home \o Tail(p) ELSE p

RECURSIVE Norm(_, _)
Norm(acc, rest) ==
    IF rest = <<>> THEN acc
    ELSE IF rest[1] = "." THEN Norm(acc, Tail(rest))
    ELSE IF rest[1] = ".."
         THEN Norm(IF Len(acc) > 1 THEN SubSeq(acc, 1, Len(acc) - 1) ELSE acc, Tail(rest))
    ELSE Norm(Append(acc, rest[1]), Tail(rest))

\* Path.resolve(): make absolute against the working directory, drop . and ..
\* (a literal ~ segment is NOT expanded by resolve).
resolve(p) == Norm(<<"/">>, Tail(IF IsAbs(p) THEN p ELSE Cwd \o p))

parent(p) == IF Len(p) <= 1 THEN p ELSE SubSeq(p, 1, Len(p) - 1)
name(p) == p[Len(p)]

\* input_path.stem + ".pdf", over the file names of the model
StemPdf(n) ==
    CASE n = "slides.pptx" -> "slides.pdf"
      [] n = "deck.ppt" -> "deck.pdf"
      [] n = "missing.pptx" -> "missing.pdf"

Prefixes(p) == {SubSeq(p, 1, k) : k \in 1..Len(p)}

\* ------------------------------------------------------- command strings
Headless == <<"--headless">>
NoLogo == <<"--nologo">>
NoWizard == <<"--nofirststartwizard">>
ConvertTo == <<"--convert-to">>
Pdf == <<"pdf">>
OutdirFlag == <<"--outdir">>

NotFoundHint ==
    "LibreOffice 'soffice' executable not found. Please install LibreOffice and ensure 'soffice' is available on your PATH."

VARIABLES
    pc,           \* "idle", "running", "exited", "returned", "raised", "maindone", "located"
    req,          \* arguments of the convert call in progress
    dirs,         \* filesystem: the directories
    files,        \* filesystem: regular file -> content
    which,        \* result of shutil.which("soffice"): None or Some(path)
    calls,        \* convert calls started so far
    spawned,      \* subprocess.run invocations of the call in progress
    input_path,   \* locals of convert
    output_path,
    target_dir,
    command,
    procCmd,      \* the argument vector the process was started with
    completed,    \* what subprocess.run produced
    wrote,        \* the file the process wrote: None or Some(path)
    result,       \* None or Some(ConversionResult)
    err,          \* None or Some(raised exception)
    exitCode,     \* main: None or Some(code)
    printed,      \* main: lines printed to standard output
    locArg,       \* find_soffice called directly: its argument
    locRes        \* and what it produced

vars == <<pc, req, dirs, files, which, calls, spawned, input_path, output_path,
          target_dir, command, procCmd, completed, wrote, result, err, exitCode,
          printed, locArg, locRes>>

\* ------------------------------------------------------------ filesystem
IsFile(p) == p \in DOMAIN files
IsDir(p) == p \in dirs
Exists(p) == IsFile(p) \/ IsDir(p)

\* Path.mkdir(parents=True, exist_ok=True) fails when the path or one of its
\* ancestors is a regular file; nothing is created in that case.
MkdirOK(p) == \A q \in Prefixes(p) : ~IsFile(q)
Mkdir(p) == dirs \cup Prefixes(p)


\* ---------------------------------------------------------------- errors
Error(kind, site, msg, detail) ==
    [kind |-> kind, site |-> site, msg |-> msg, detail |-> detail]

InputNotFound == Error("InputNotFound", "input", "Input file does not exist", None)
InvalidArguments ==
    Error("InvalidArguments", "arguments", "Specify either output_file or output_dir, not both.", None)
ExecutableNotFound == Error("ExecutableNotFound", "find_soffice", NotFoundHint, None)
ConversionTimedOut ==
    Error("ConversionTimedOut", "run", "LibreOffice timed out while converting the presentation.", None)
MissingOutput ==
    Error("ConversionFailed", "output",
          "LibreOffice reported success but the expected PDF was not created.", None)
\* faulty variant: the captured streams are left out of the error
CommandFailed_NoStreams(cmd, out, errtext) ==
    Error("ConversionFailed", "run", "LibreOffice failed to convert the presentation.",
          Some([command |-> cmd, stdout |-> "", stderr |-> ""]))

CommandFailed(cmd, out, errtext) ==
    Error("ConversionFailed", "run", "LibreOffice failed to convert the presentation.",
          Some([command |-> cmd, stdout |-> out, stderr |-> errtext]))
\* an OSError of the standard library that convert does not catch
OSError(site) == Error("OSError", site, "OSError", None)

\* ---------------------------------------------------- Executable Locator
\* faulty variant: the search path is preferred to the candidate
find_soffice_path_first(candidate) ==
    IF which # None
    THEN [path |-> which, err |-> None]
    ELSE IF Truthy(candidate) /\ IsFile(resolve(expanduser(candidate[1])))
    THEN [path |-> Some(resolve(expanduser(candidate[1]))), err |-> None]
    ELSE [path |-> None, err |-> Some(ExecutableNotFound)]

find_soffice(candidate) ==
    IF Truthy(candidate) /\ IsFile(resolve(expanduser(candidate[1])))
    THEN [path |-> Some(resolve(expanduser(candidate[1]))), err |-> None]
    ELSE IF which # None
    THEN [path |-> which, err |-> None]
    ELSE [path |-> None, err |-> Some(ExecutableNotFound)]

\* ------------------------------------------------ Conversion Orchestrator
\* faulty variant: the extra arguments are appended after the built-in flags
build_command_append(soffice_path, extra_args, in_path, output_dir) ==
    LET base == <<soffice_path, Headless, NoLogo, NoWizard, ConvertTo, Pdf,
                  OutdirFlag, output_dir>>
    IN  IF Truthy(extra_args)
        THEN base \o extra_args[1] \o <<in_path>>
        ELSE Append(base, in_path)

build_command(soffice_path, extra_args, in_path, output_dir) ==
    LET base == <<soffice_path, Headless, NoLogo, NoWizard, ConvertTo, Pdf,
                  OutdirFlag, output_dir, in_path>>
    IN  IF Truthy(extra_args)
        THEN <<base[1]>> \o extra_args[1] \o Tail(base)
        ELSE base

InputPathOf(r) == resolve(expanduser(r.input_file))

\* faulty variant: the executable is resolved before the output arguments are compared
Validate_ExeFirst(r) ==
    IF ~Exists(InputPathOf(r)) THEN Some(InputNotFound)
    ELSE IF find_soffice(IF Truthy(r.soffice_path) THEN r.soffice_path ELSE None).err # None
    THEN Some(ExecutableNotFound)
    ELSE IF Truthy(r.output_file) /\ Truthy(r.output_dir) THEN Some(InvalidArguments)
    ELSE None

\* lines 110-117: the three guards, in the order of the code
Validate(r) ==
    IF ~Exists(InputPathOf(r)) THEN Some(InputNotFound)
    ELSE IF Truthy(r.output_file) /\ Truthy(r.output_dir) THEN Some(InvalidArguments)
    ELSE find_soffice(IF Truthy(r.soffice_path) THEN r.soffice_path ELSE None).err

\* faulty variant: the output directory is resolved without expanding ~
TargetDirOf_NoExpand(r) ==
    IF Truthy(r.output_file) THEN parent(resolve(expanduser(r.output_file[1])))
    ELSE IF Truthy(r.output_dir) THEN resolve(r.output_dir[1])
    ELSE parent(InputPathOf(r))

\* lines 119-126
TargetDirOf(r) ==
    IF Truthy(r.output_file) THEN parent(resolve(expanduser(r.output_file[1])))
    ELSE IF Truthy(r.output_dir) THEN resolve(expanduser(r.output_dir[1]))
    ELSE parent(InputPathOf(r))

OutputPathOf(r) ==
    IF Truthy(r.output_file) THEN resolve(expanduser(r.output_file[1]))
    ELSE TargetDirOf(r) \o <<StemPdf(name(InputPathOf(r)))>>

\* faulty variant: the working directory is created before the request is validated
DirsAfterStart_Early(r) ==
    IF MkdirOK(TargetDirOf(r)) THEN Mkdir(TargetDirOf(r)) ELSE dirs

\* the directories after lines 110-126
DirsAfterStart(r) ==
    IF Validate(r) = None /\ MkdirOK(TargetDirOf(r)) THEN Mkdir(TargetDirOf(r)) ELSE dirs

\* faulty variant: a failure to create the working directory is swallowed
StartError_NoMkdirCheck(r) == Validate(r)

\* the exception raised by lines 110-126, if any
StartError(r) ==
    IF Validate(r) # None THEN Validate(r)
    ELSE IF ~MkdirOK(TargetDirOf(r)) THEN Some(OSError("mkdir"))
    ELSE None

\* lines 157-165: the path of the produced file, or None when there is none
CheckOutput(out_path, tdir, in_path) ==
    IF Exists(out_path) THEN Some(out_path)
    ELSE IF Exists(tdir \o <<StemPdf(name(in_path))>>)
    THEN Some(tdir \o <<StemPdf(name(in_path))>>)
    ELSE None

\* line 167: Path(output_file).resolve(), without expanduser
RenameTarget(r) == resolve(r.output_file[1])

NeedsRename(r, produced) == Truthy(r.output_file) /\ produced # RenameTarget(r)

\* Path.replace(): os.replace of a regular file; the destination's parent
\* must be a directory and the destination must not be a directory.
ReplaceOK(src, dst) == IsFile(src) /\ IsDir(parent(dst)) /\ ~IsDir(dst)
Replace(src, dst) ==
    [p \in (DOMAIN files \ {src}) \cup {dst} |-> IF p = dst THEN files[src] ELSE files[p]]

\* ------------------------------------------------------------------- CLI
\* faulty variant: a failure is reported on standard output with status 0
main_outcome_zero(res, e) ==
    IF e = None
    THEN [code |-> Some(0), out |-> <<res[1].output_path>>]
    ELSE [code |-> Some(0), out |-> <<e[1].msg>>]

\* main: parser.error() prints to standard error and exits with status 2.
main_outcome(res, e) ==
    IF e = None
    THEN [code |-> Some(0), out |-> <<res[1].output_path>>]
    ELSE [code |-> Some(2), out |-> <<>>]


\* ------------------------------------------------- the inputs of the model
InputFiles == { <<"slides.pptx">>, <<"~", "deck.ppt">>, <<"missing.pptx">> }
OutputFiles ==
    { None, Some(<<>>), Some(<<"/", "w", "out", "final.pdf">>), Some(<<"~", "final.pdf">>),
      Some(<<"out", "..", "slides.pdf">>) }
OutputDirs == { None, Some(<<"~", "out">>), Some(<<"slides.pptx">>) }
SofficePaths == { None, Some(<<"/", "opt", "soffice">>), Some(<<"~", "nope">>) }
Timeouts == { None, Some(5) }
ExtraArgs == { None, Some(<<>>), Some(<< <<"-env">>, <<"--norestore">> >>) }
Streams == { [stdout |-> "ok", stderr |-> ""], [stdout |-> "", stderr |-> "boom"] }
\* candidates of a direct call of find_soffice
Candidates ==
    SofficePaths \cup { Some(<<>>), Some(<<"..", "opt", "soffice">>), Some(<<"/", "opt">>) }

Requests ==
    [input_file : InputFiles, output_file : OutputFiles, output_dir : OutputDirs,
     soffice_path : SofficePaths, timeout : Timeouts, extra_args : ExtraArgs]

NoReq ==
    [input_file |-> <<>>, output_file |-> None, output_dir |-> None,
     soffice_path |-> None, timeout |-> None, extra_args |-> None]
NoCompleted == [status |-> "none", stdout |-> "", stderr |-> ""]

\* ------------------------------------------------------------------ Init
BaseDirs ==
    { <<"/">>, <<"/", "w">>, <<"/", "h">>, <<"/", "opt">>, <<"/", "usr">>, <<"/", "usr", "bin">> }
BaseFiles ==
    { <<"/", "w", "slides.pptx">>, <<"/", "h", "deck.ppt">>, <<"/", "opt", "soffice">> }
\* files that may be left over from before the first call
OldFiles == { <<"/", "w", "out", "final.pdf">> }

Init ==
    /\ pc = "idle"
    /\ req = NoReq
    /\ \E old \in SUBSET OldFiles :
          /\ files = [p \in BaseFiles \cup old |-> 0]
          /\ dirs = BaseDirs \cup UNION { Prefixes(parent(p)) : p \in old }
    /\ which \in { None, Some(<<"/", "usr", "bin", "soffice">>) }
    /\ calls = 0
    /\ spawned = 0
    /\ input_path = <<>>
    /\ output_path = <<>>
    /\ target_dir = <<>>
    /\ command = <<>>
    /\ procCmd = <<>>
    /\ completed = NoCompleted
    /\ wrote = None
    /\ result = None
    /\ err = None
    /\ exitCode = None
    /\ printed = <<>>
    /\ locArg = None
    /\ locRes = [path |-> None, err |-> None]

\* --------------------------------------------------------------- actions
\* convert, lines 110-137: validate, create the working directory, build the
\* command and start the process.
Call(r) ==
    /\ pc = "idle"
    /\ calls < MaxCalls
    /\ calls' = calls + 1
    /\ req' = r
    /\ dirs' = DirsAfterStart(r)
    /\ err' = StartError(r)
    /\ IF StartError(r) # None
       THEN /\ pc' = "raised"
            /\ spawned' = 0
            /\ UNCHANGED <<input_path, output_path, target_dir, command, procCmd>>
       ELSE /\ pc' = "running"
            /\ spawned' = 1
            /\ input_path' = InputPathOf(r)
            /\ output_path' = OutputPathOf(r)
            /\ target_dir' = TargetDirOf(r)
            /\ command' = build_command(
                   find_soffice(IF Truthy(r.soffice_path) THEN r.soffice_path ELSE None).path[1],
                   r.extra_args, InputPathOf(r), TargetDirOf(r))
            /\ procCmd' = command'
    /\ UNCHANGED <<files, which, completed, wrote, result, exitCode, printed, locArg, locRes>>

\* convert is entered, by a library caller or by main (which passes the parsed
\* arguments through unchanged, cli.py lines 59-66)
Convert == \E r \in Requests : Call(r)

\* The external converter: reads its output directory and its input from the
\* argument vector, may write <stem>.pdf into that directory, and ends by
\* exiting, by being killed at the timeout, or by failing to start.
ProcOutdir == procCmd[Len(procCmd) - 1]
ProcInput == procCmd[Len(procCmd)]
ProcDefault == ProcOutdir \o <<StemPdf(name(ProcInput))>>

Process(status, writes, io) ==
    /\ pc = "running"
    /\ status = "timeout" => req.timeout # None
    /\ status \in {"oserror", "timeout"} => io.stdout = ""
    /\ status = "ok" => io.stdout = "ok"
    /\ status = "oserror" => ~writes
    /\ writes => IsDir(ProcOutdir) /\ ~IsDir(ProcDefault)
    /\ files' = IF writes
                THEN [p \in DOMAIN files \cup {ProcDefault} |->
                         IF p = ProcDefault THEN calls ELSE files[p]]
                ELSE files
    /\ wrote' = IF writes THEN Some(ProcDefault) ELSE None
    /\ completed' = [status |-> status, stdout |-> io.stdout, stderr |-> io.stderr]
    /\ pc' = "exited"
    /\ UNCHANGED <<req, dirs, which, calls, spawned, input_path, output_path, target_dir,
                   command, procCmd, result, err, exitCode, printed, locArg, locRes>>

ProcessStep ==
    \E status \in {"ok", "fail", "timeout", "oserror"}, writes \in BOOLEAN, io \in Streams :
        Process(status, writes, io)

Raise(e) ==
    /\ pc' = "raised"
    /\ err' = Some(e)
    /\ UNCHANGED <<files, result, output_path>>

Return(path) ==
    /\ pc' = "returned"
    /\ output_path' = path
    /\ result' = Some([input_path |-> input_path, output_path |-> path, command |-> command,
                       stdout |-> completed.stdout, stderr |-> completed.stderr])
    /\ UNCHANGED err

\* convert, lines 145-177: handle the end of the process.
Complete ==
    /\ pc = "exited"
    /\ CASE completed.status = "timeout" -> Raise(ConversionTimedOut)
         [] completed.status = "oserror" -> Raise(OSError("run"))
         [] completed.status = "fail" ->
                Raise(CommandFailed(command, completed.stdout, completed.stderr))
         [] completed.status = "ok" ->
                LET produced == CheckOutput(output_path, target_dir, input_path) IN
                IF produced = None THEN Raise(MissingOutput)
                ELSE IF NeedsRename(req, produced[1])
                THEN IF ReplaceOK(produced[1], RenameTarget(req))
                     THEN /\ files' = Replace(produced[1], RenameTarget(req))
                          /\ Return(RenameTarget(req))
                     ELSE Raise(OSError("replace"))
                ELSE /\ files' = files
                     /\ Return(produced[1])
    /\ UNCHANGED <<req, dirs, which, calls, spawned, input_path, target_dir, command,
                   procCmd, completed, wrote, exitCode, printed, locArg, locRes>>

\* main, lines 67-73: convert returned or raised and its caller was main.
MainReturn ==
    /\ pc \in {"returned", "raised"}
    /\ pc' = "maindone"
    /\ exitCode' = main_outcome(result, err).code
    /\ printed' = main_outcome(result, err).out
    /\ UNCHANGED <<req, dirs, files, which, calls, spawned, input_path, output_path,
                   target_dir, command, procCmd, completed, wrote, result, err, locArg, locRes>>

\* find_soffice called directly
Locate ==
    /\ pc = "idle"
    /\ calls < MaxCalls
    /\ \E c \in Candidates :
          /\ locArg' = c
          /\ locRes' = find_soffice(c)
    /\ pc' = "located"
    /\ UNCHANGED <<req, dirs, files, which, calls, spawned, input_path, output_path,
                   target_dir, command, procCmd, completed, wrote, result, err, exitCode, printed>>

\* the call is over; only the filesystem outlives it
Reset ==
    /\ pc \in {"returned", "raised", "maindone", "located"}
    /\ pc' = "idle"
    /\ req' = NoReq
    /\ spawned' = 0
    /\ input_path' = <<>>
    /\ output_path' = <<>>
    /\ target_dir' = <<>>
    /\ command' = <<>>
    /\ procCmd' = <<>>
    /\ completed' = NoCompleted
    /\ wrote' = None
    /\ result' = None
    /\ err' = None
    /\ exitCode' = None
    /\ printed' = <<>>
    /\ locArg' = None
    /\ locRes' = [path |-> None, err |-> None]
    /\ UNCHANGED <<dirs, files, which, calls>>

Next ==
    \/ Convert
    \/ ProcessStep
    \/ Complete
    \/ MainReturn
    \/ Locate
    \/ Reset

Spec == Init /\ [][Next]_vars


\* ======================================================================
\* Claims
\* ======================================================================
Finished == pc \in {"returned", "raised", "maindone"}
Raised(kind) == result = None /\ err # None /\ err[1].kind = kind

\* the request's paths, as the caller means them
ReqInput == resolve(expanduser(req.input_file))
ReqExplicit == resolve(expanduser(req.output_file[1]))
ReqDefaultName == StemPdf(name(ReqInput))
ReqCandidateOK ==
    Truthy(req.soffice_path) /\ IsFile(resolve(expanduser(req.soffice_path[1])))
\* steps 1-3 of convert succeed
StepsOK ==
    /\ Exists(ReqInput)
    /\ ~(Truthy(req.output_file) /\ Truthy(req.output_dir))
    /\ (ReqCandidateOK \/ which # None)
ReqWorkDir ==
    IF Truthy(req.output_file) THEN parent(ReqExplicit)
    ELSE IF Truthy(req.output_dir) THEN resolve(expanduser(req.output_dir[1]))
    ELSE parent(ReqInput)

\* C1: a call with an explicit output path different from the default path,
\* whose converter exits 0 and writes the default-named file, returns the
\* explicit path, and the file there holds what the converter wrote in this
\* call, also when a file was already there.
C1_ExplicitPathHoldsNewContent ==
    ( /\ Finished
      /\ Truthy(req.output_file)
      /\ completed.status = "ok"
      /\ ReqExplicit # parent(ReqExplicit) \o <<ReqDefaultName>>
      /\ wrote = Some(parent(ReqExplicit) \o <<ReqDefaultName>>) )
    => /\ result # None
       /\ result[1].output_path = ReqExplicit
       /\ IsFile(ReqExplicit)
       /\ files[ReqExplicit] = calls

\* C2: when the process exits 0 and no file is at the default output path,
\* convert fails with Conversion Failed and returns no outcome.
C2_MissingDefaultFails ==
    [][ ( /\ pc = "exited"
          /\ completed.status = "ok"
          /\ ~IsFile(target_dir \o <<StemPdf(name(input_path))>>) )
        => /\ pc' = "raised"
           /\ result' = None
           /\ err' # None
           /\ err'[1].kind = "ConversionFailed" ]_vars

C4_NonZeroExitFails ==
    [][ (pc = "exited" /\ completed.status = "fail")
        => /\ pc' = "raised"
           /\ result' = None
           /\ err' # None
           /\ err'[1].kind = "ConversionFailed"
           /\ err'[1].detail = Some([command |-> procCmd, stdout |-> completed.stdout,
                                     stderr |-> completed.stderr])
           /\ UNCHANGED <<dirs, files>> ]_vars

C4_Witness ==
    /\ pc = "raised"
    /\ completed.status = "fail"
    /\ completed.stderr = "boom"
    /\ wrote # None
    /\ Truthy(req.output_file)
    /\ Raised("ConversionFailed")

\* C5: without an explicit output path, with an existing input and a converter
\* that exits 0 after writing <stem>.pdf into the directory of its --outdir
\* flag, the working directory is the given output directory (created if
\* absent) or else the input's directory, the returned output path is
\* <working directory>/<stem>.pdf, and the returned command has --headless.
C5_DefaultOutputPath ==
    ( /\ Finished
      /\ ~Truthy(req.output_file)
      /\ Exists(ReqInput)
      /\ completed.status = "ok"
      /\ wrote = Some(ProcDefault) )
    => /\ result # None
       /\ ProcOutdir = ReqWorkDir
       /\ IsDir(ReqWorkDir)
       /\ result[1].output_path = ReqWorkDir \o <<ReqDefaultName>>
       /\ \E i \in 1..Len(result[1].command) : result[1].command[i] = Headless

C5_Witness ==
    /\ pc = "returned"
    /\ req.output_file = None
    /\ Truthy(req.output_dir)
    /\ ReqWorkDir \notin BaseDirs
    /\ Truthy(req.extra_args)
    /\ wrote = Some(ReqWorkDir \o <<ReqDefaultName>>)
    /\ result[1].output_path = ReqWorkDir \o <<ReqDefaultName>>

\* C6 (as stated): a call spawns exactly one process when steps 1-3 succeed
\* and none otherwise.
C6_OneSpawnIffStepsSucceed ==
    (req # NoReq) => spawned = (IF StepsOK THEN 1 ELSE 0)

\* C6 (amended): a call invokes the process exactly once when steps 1-3
\* succeed and the working output directory exists or can be created, and
\* never otherwise; no state of a call has a second invocation.
C6_OneSpawnIffStarted ==
    (req # NoReq) => spawned = (IF StepsOK /\ MkdirOK(ReqWorkDir) THEN 1 ELSE 0)

C6_Witness ==
    /\ pc = "raised"
    /\ spawned = 1
    /\ completed.status = "timeout"
    /\ Raised("ConversionTimedOut")

\* C7: the command line is the executable, the caller's extra arguments in
\* their order, --headless --nologo --nofirststartwizard --convert-to pdf
\* --outdir, the working directory and the absolute input path; the returned
\* outcome records the sequence the process was started with.
C7_CommandLine ==
    (spawned = 1) =>
       /\ procCmd =
            <<IF ReqCandidateOK THEN resolve(expanduser(req.soffice_path[1])) ELSE which[1]>>
            \o (IF req.extra_args = None THEN <<>> ELSE req.extra_args[1])
            \o <<Headless, NoLogo, NoWizard, ConvertTo, Pdf, OutdirFlag>>
            \o <<target_dir, input_path>>
       /\ result # None => result[1].command = procCmd

C7_Witness ==
    /\ pc = "returned"
    /\ Truthy(req.extra_args)
    /\ Len(req.extra_args[1]) = 2
    /\ result[1].command[2] = req.extra_args[1][1]
    /\ result[1].command[3] = req.extra_args[1][2]
    /\ result[1].command[4] = Headless

\* C8: find_soffice returns the resolved candidate when one is given and is a
\* regular file, even when the search path holds a converter; otherwise the
\* search-path hit when there is one; and fails with the remediation hint
\* exactly when neither is available.
LocCandidateOK == Truthy(locArg) /\ IsFile(resolve(expanduser(locArg[1])))
C8_Locator ==
    (pc = "located") =>
       /\ LocCandidateOK => locRes.path = Some(resolve(expanduser(locArg[1])))
       /\ (~LocCandidateOK /\ which # None) => locRes.path = which
       /\ (locRes.err # None) <=> (~LocCandidateOK /\ which = None)
       /\ (locRes.err = None) <=> (locRes.path # None)
       /\ (locRes.err # None) =>
             locRes.err[1].kind = "ExecutableNotFound" /\ locRes.err[1].msg = NotFoundHint

C8_Witness ==
    /\ pc = "located"
    /\ LocCandidateOK
    /\ which # None
    /\ locRes.path # which
    /\ locRes.path = Some(<<"/", "opt", "soffice">>)
    /\ locArg # Some(<<"/", "opt", "soffice">>)

\* C9: main prints exactly the outcome's output path and yields exit code 0
\* when the conversion succeeds; when the conversion raises anything, main
\* yields a non-zero exit code and prints nothing to standard output.
C9_MainExit ==
    (pc = "maindone") =>
       /\ result # None => exitCode = Some(0) /\ printed = <<result[1].output_path>>
       /\ err # None => exitCode # None /\ exitCode # Some(0) /\ printed = <<>>
       /\ result # None \/ err # None

C9_Witness ==
    /\ pc = "maindone"
    /\ err # None
    /\ err[1].kind = "OSError"
    /\ exitCode = Some(2)
    /\ printed = <<>>

\* C10: a call that fails with Input Not Found, Invalid Arguments or
\* Executable Not Found leaves directories and files unchanged.
C10_EarlyFailureFrame ==
    [][ ( /\ pc' = "raised"
          /\ err' # None
          /\ err'[1].kind \in {"InputNotFound", "InvalidArguments", "ExecutableNotFound"} )
        => UNCHANGED <<dirs, files>> ]_vars

C10_Witness ==
    /\ pc = "raised"
    /\ Raised("ExecutableNotFound")
    /\ Truthy(req.output_dir)
    /\ MkdirOK(resolve(expanduser(req.output_dir[1])))
    /\ ~IsDir(resolve(expanduser(req.output_dir[1])))

====
